---------------------------- MODULE Spec2Model ----------------------------
(* Model of the biblical search engine of counter_dois.py / painel.py:     *)
(* text normalisation, Hebrew numeral decoding, the Hebrew adapter, the    *)
(* two search entry points and the loader of the versions.                 *)
(*                                                                         *)
(* A Python str is a sequence of characters, and a character is a TLA+     *)
(* string: itself when it is ASCII, its name otherwise ("a_acute" is       *)
(* U+00E1, "U+0301" the combining acute accent, "sigma", "final_sigma"     *)
(* and "SIGMA" are U+03C3, U+03C2 and U+03A3, "alef" .. "tav" the 22       *)
(* Hebrew letters, "geresh" and "gershayim" U+05F3 and U+05F4, "final_kaf" *)
(* U+05DA).  A Python value whose type matters is a record [tipo, val].    *)
EXTENDS Integers, Sequences, FiniteSets, TLC

VARIABLES
    pc,        \* position of the call or of the loader loop
    args,      \* arguments of the call under way
    ret,       \* value returned by the call ("pendente" before it returns)
    arquivos,  \* state of each version's source file on disk
    result,    \* build_biblias: the local dict `result`
    biblias    \* the module-level object `biblias` (published corpora)

vars == <<pc, args, ret, arquivos, result, biblias>>

-----------------------------------------------------------------------------
(* Bounds of the model *)

MaxTexto == 2      \* normalizar: longest text of a compared pair

-----------------------------------------------------------------------------
(* Generic helpers *)

(* the sequences over S of length at most n *)
SeqsUpTo(S, n) == UNION {[1..k -> S] : k \in 0..n}

RECURSIVE Concat(_)
Concat(ss) == IF ss = <<>> THEN <<>> ELSE Head(ss) \o Concat(Tail(ss))

Filter(s, Keep(_)) == SelectSeq(s, Keep)

Str(s) == [tipo |-> "str", val |-> s]
NaoStr == [tipo |-> "NoneType", val |-> <<>>]

-----------------------------------------------------------------------------
(* Unicode data used by normalizar and by the regular expression of        *)
(* _count_in_text, for the characters of the model.                        *)

NFDChar(ch) ==
    IF ch = "a_acute" THEN <<"a", "U+0301">> ELSE <<ch>>

CategoryMn(ch) == ch = "U+0301"

IsCased(ch) == ch \in {"a", "A", "a_acute", "m", "o", "r", "sigma", "final_sigma", "SIGMA"}

IsCaseIgnorable(ch) == ch \in {".", "U+0301"}

IsWordChar(ch) == ch \notin {" ", ".", ",", "U+0301", "geresh", "gershayim"}

(* str.lower() of one character; capital sigma depends on its context      *)
(* (Final_Sigma: a cased letter before, none after, skipping ignorables).  *)
RECURSIVE PrevSignificant(_, _)
PrevSignificant(s, j) ==
    IF j < 1 THEN 0
    ELSE IF IsCaseIgnorable(s[j]) THEN PrevSignificant(s, j - 1) ELSE j

RECURSIVE NextSignificant(_, _)
NextSignificant(s, j) ==
    IF j > Len(s) THEN 0
    ELSE IF IsCaseIgnorable(s[j]) THEN NextSignificant(s, j + 1) ELSE j

FinalSigma(s, i) ==
    LET b == PrevSignificant(s, i - 1)
        a == NextSignificant(s, i + 1)
    IN  /\ b # 0 /\ IsCased(s[b])
        /\ (a = 0 \/ ~IsCased(s[a]))

LowerAt(s, i) ==
    CASE s[i] = "A" -> "a"
      [] s[i] = "SIGMA" -> (IF FinalSigma(s, i) THEN "final_sigma" ELSE "sigma")
      [] OTHER      -> s[i]

lower(s) == [i \in 1..Len(s) |-> LowerAt(s, i)]

NFD(s) == Concat([i \in 1..Len(s) |-> NFDChar(s[i])])

NotMn(ch) == ~CategoryMn(ch)

-----------------------------------------------------------------------------
(* normalizar *)

normalizar(texto) ==
    IF texto.tipo # "str" THEN <<>>
    ELSE lower(Filter(NFD(texto.val), NotMn))

-----------------------------------------------------------------------------
(* Idle values of the loader state, for the specifications of the calls *)

Indefinido == [definido |-> FALSE, val |-> <<>>]

SemCarga ==
    /\ arquivos = <<>>
    /\ result = <<>>
    /\ biblias = Indefinido

-----------------------------------------------------------------------------
(* Specification of normalizar: two texts are normalised side by side *)

AlfabetoNorm == {"a", "A", "a_acute", "U+0301", "sigma", "final_sigma", "SIGMA", " ", "."}

TextosNorm == SeqsUpTo(AlfabetoNorm, MaxTexto)

InitNormalizar ==
    /\ pc = "chamada"
    /\ args \in {<<Str(t1), Str(t2)>> : t1 \in TextosNorm, t2 \in TextosNorm}
                \cup {<<NaoStr, Str(<<>>)>>}
    /\ ret = "pendente"
    /\ SemCarga

Normalizar ==
    /\ pc = "chamada"
    /\ ret' = <<normalizar(args[1]), normalizar(args[2])>>
    /\ pc' = "retorno"
    /\ UNCHANGED <<args, arquivos, result, biblias>>

SpecNormalizar == InitNormalizar /\ [][Normalizar]_vars


(* C4: normalizar gives the same output for two texts that differ only in  *)
(* accents/combining marks, letter case or the form of sigma.              *)
(* Two texts differ only in those respects when their skeletons agree: the *)
(* base characters, unaccented, with case and sigma form forgotten.        *)
Classe(ch) ==
    CASE ch = "A"          -> "a"
      [] ch \in {"final_sigma", "SIGMA"} -> "sigma"
      [] OTHER             -> ch

Esqueleto(s) ==
    LET base == Filter(NFD(s), NotMn)
    IN  [i \in 1..Len(base) |-> Classe(base[i])]

C4_NormalizarInvariante ==
    (/\ pc = "retorno"
     /\ args[1].tipo = "str" /\ args[2].tipo = "str"
     /\ Esqueleto(args[1].val) = Esqueleto(args[2].val))
    => ret[1] = ret[2]

-----------------------------------------------------------------------------
(* Hebrew numerals *)

HEB_NUM_VAL ==
    [ch \in {"alef", "bet", "gimel", "dalet", "he", "vav", "zayin", "het",
             "tet", "yod", "kaf", "lamed", "mem", "nun", "samekh", "ayin",
             "pe", "tsadi", "qof", "resh", "shin", "tav"} |->
        CASE ch = "alef" -> 1   [] ch = "bet" -> 2   [] ch = "gimel" -> 3
          [] ch = "dalet" -> 4   [] ch = "he" -> 5   [] ch = "vav" -> 6
          [] ch = "zayin" -> 7   [] ch = "het" -> 8   [] ch = "tet" -> 9
          [] ch = "yod" -> 10  [] ch = "kaf" -> 20  [] ch = "lamed" -> 30
          [] ch = "mem" -> 40  [] ch = "nun" -> 50  [] ch = "samekh" -> 60
          [] ch = "ayin" -> 70  [] ch = "pe" -> 80  [] ch = "tsadi" -> 90
          [] ch = "qof" -> 100 [] ch = "resh" -> 200 [] ch = "shin" -> 300
          [] ch = "tav" -> 400]

(* HEB_NUM_CLEAN_RE removes every character outside this class. *)
HEB_NUM_CLEAN_RE ==
    {"alef", "bet", "gimel", "dalet", "he", "vav", "zayin", "het",
     "tet", "yod", "kaf", "lamed", "mem", "nun", "samekh", "ayin",
     "pe", "tsadi", "qof", "resh", "shin", "tav"}

InCleanClass(ch) == ch \in HEB_NUM_CLEAN_RE

HebNumGet(ch) == IF ch \in DOMAIN HEB_NUM_VAL THEN HEB_NUM_VAL[ch] ELSE 0

RECURSIVE SumVals(_)
SumVals(s) == IF s = <<>> THEN 0 ELSE HebNumGet(Head(s)) + SumVals(Tail(s))

Max(a, b) == IF a >= b THEN a ELSE b

(* A decoder that reads the label only up to its first sign. *)
hebraico_para_num_prefixo(s) ==
    IF s.tipo # "str" THEN 0
    ELSE LET stop == {i \in 1..Len(s.val) : ~InCleanClass(s.val[i])}
             n    == IF stop = {} THEN Len(s.val)
                     ELSE (CHOOSE i \in stop : \A j \in stop : i <= j) - 1
         IN  Max(SumVals(SubSeq(s.val, 1, n)), 0)

hebraico_para_num(s) ==
    IF s.tipo # "str" THEN 0
    ELSE Max(SumVals(Filter(s.val, InCleanClass)), 0)

-----------------------------------------------------------------------------
(* Specification of hebraico_para_num *)

MaxNumeral == 3    \* longest chapter label decoded

AlfabetoNum == HEB_NUM_CLEAN_RE \cup {"geresh", "gershayim", "final_kaf", "a", " "}

InitHebNum ==
    /\ pc = "chamada"
    /\ args \in {Str(s) : s \in SeqsUpTo(AlfabetoNum, MaxNumeral)} \cup {NaoStr}
    /\ ret = "pendente"
    /\ SemCarga

HebraicoParaNum ==
    /\ pc = "chamada"
    /\ ret' = hebraico_para_num(args)
    /\ pc' = "retorno"
    /\ UNCHANGED <<args, arquivos, result, biblias>>

SpecHebNum == InitHebNum /\ [][HebraicoParaNum]_vars

(* The numeral value of the i-th letter of the alphabet: ones 1-9, tens    *)
(* 10-90, hundreds 100-400.                                                *)
Alefbet ==
    <<"alef", "bet", "gimel", "dalet", "he", "vav", "zayin", "het",
      "tet", "yod", "kaf", "lamed", "mem", "nun", "samekh", "ayin",
      "pe", "tsadi", "qof", "resh", "shin", "tav">>

ValorDaLetra(i) ==
    IF i <= 9 THEN i ELSE IF i <= 18 THEN (i - 9) * 10 ELSE (i - 18) * 100

Ocorrencias(s, ch) == Cardinality({i \in 1..Len(s) : s[i] = ch})

RECURSIVE SomaLetras(_, _)
SomaLetras(s, i) ==
    IF i = 0 THEN 0
    ELSE ValorDaLetra(i) * Ocorrencias(s, Alefbet[i]) + SomaLetras(s, i - 1)

TemLetra(s) == \E i \in 1..Len(s), k \in 1..Len(Alefbet) : s[i] = Alefbet[k]

(* C9: hebraico_para_num returns the sum of the numeral values of the      *)
(* letters of the 22-letter alphabet in its input, ignoring every other    *)
(* character; it is never negative, and it is 0 exactly when the input is  *)
(* not a string or holds none of the 22 letters.                           *)
C9_SomaDasLetras ==
    pc = "retorno" =>
        /\ args.tipo = "str" => ret = SomaLetras(args.val, Len(Alefbet))
        /\ ret >= 0
        /\ ret = 0 <=> (args.tipo # "str" \/ ~TemLetra(args.val))

(* A label with a sign between two letters has been decoded. *)
C9_Witness ==
    /\ pc = "retorno"
    /\ args.tipo = "str"
    /\ \E i \in 1..Len(args.val) : args.val[i] \in {"geresh", "gershayim"}
    /\ ret = 11

-----------------------------------------------------------------------------
(* Counting the occurrences of a term in one verse *)

MatchAt(text, term, i) ==
    /\ i + Len(term) - 1 <= Len(text)
    /\ SubSeq(text, i, i + Len(term) - 1) = term

(* (?<!\w) before position i and (?!\w) after the n characters from i *)
NoWordAround(text, i, n) ==
    /\ (i = 1 \/ ~IsWordChar(text[i - 1]))
    /\ (i + n > Len(text) \/ ~IsWordChar(text[i + n]))

(* str.count(term): non-overlapping occurrences, scanning from the left *)
RECURSIVE StrCount(_, _, _)
StrCount(text, term, i) ==
    IF i + Len(term) - 1 > Len(text) THEN 0
    ELSE IF MatchAt(text, term, i)
         THEN 1 + StrCount(text, term, i + Len(term))
         ELSE StrCount(text, term, i + 1)

(* len(pat.findall(text)) for pat = (?<!\w)term(?!\w) *)
RECURSIVE FindallCount(_, _, _)
FindallCount(text, term, i) ==
    IF i + Len(term) - 1 > Len(text) THEN 0
    ELSE IF MatchAt(text, term, i) /\ NoWordAround(text, i, Len(term))
         THEN 1 + FindallCount(text, term, i + Len(term))
         ELSE FindallCount(text, term, i + 1)

(* The exact mode without its word borders. *)
_count_in_text_sem_borda(text_norm, term_norm, modo) ==
    IF term_norm = <<>> THEN 0
    ELSE StrCount(text_norm, term_norm, 1)

(* The substring mode with the receiver and the argument of count swapped. *)
_count_in_text_trocado(text_norm, term_norm, modo) ==
    IF term_norm = <<>> THEN 0
    ELSE IF modo = "exato" THEN FindallCount(text_norm, term_norm, 1)
    ELSE IF text_norm = <<>> THEN Len(term_norm) + 1
    ELSE StrCount(term_norm, text_norm, 1)

_count_in_text(text_norm, term_norm, modo) ==
    IF term_norm = <<>> THEN 0
    ELSE IF modo = "exato" THEN FindallCount(text_norm, term_norm, 1)
    ELSE StrCount(text_norm, term_norm, 1)

(* The body of the verse loops: the count of one verse for one term *)
CountVerse(vers, term_norm, modo) ==
    _count_in_text(normalizar(Str(vers)), term_norm, modo)

(* The modes the callers pass: the command line offers substring and exato, *)
(* the panel passes "frase" for its root search.                            *)
Modos == {"substring", "exato", "frase"}

-----------------------------------------------------------------------------
(* Specification of the count of one verse *)

MaxVerso == 4      \* longest verse text
MaxTermo == 2      \* longest search term

AlfabetoVerso == {"a", "A", "m", " "}

AmostraVerso == <<"o", " ", "a", "m", "o", "r", " ", "a", "m", "a">>
AmostraTermo == <<"a", "m", "a">>

InitContagem ==
    /\ pc = "chamada"
    /\ args \in [vers : SeqsUpTo(AlfabetoVerso, MaxVerso),
                 termo : SeqsUpTo(AlfabetoVerso, MaxTermo),
                 modo : Modos]
                \cup [vers : {AmostraVerso}, termo : {AmostraTermo}, modo : Modos]
    /\ ret = "pendente"
    /\ SemCarga

ContarVerso ==
    /\ pc = "chamada"
    /\ ret' = CountVerse(args.vers, normalizar(Str(args.termo)), args.modo)
    /\ pc' = "retorno"
    /\ UNCHANGED <<args, arquivos, result, biblias>>

SpecContagem == InitContagem /\ [][ContarVerso]_vars

(* The tokens of a text are its maximal runs of word characters. *)
TokenStart(text, i) ==
    /\ IsWordChar(text[i])
    /\ (i = 1 \/ ~IsWordChar(text[i - 1]))

RECURSIVE TokenEnd(_, _)
TokenEnd(text, i) ==
    IF i < Len(text) /\ IsWordChar(text[i + 1]) THEN TokenEnd(text, i + 1) ELSE i

TokensEqual(text, term) ==
    Cardinality({i \in 1..Len(text) :
        /\ TokenStart(text, i)
        /\ SubSeq(text, i, TokenEnd(text, i)) = term})

OnlyWordChars(s) == \A i \in 1..Len(s) : IsWordChar(s[i])

NormVerso == normalizar(Str(args.vers))
NormTermo == normalizar(Str(args.termo))

(* C3, as stated: in exact mode the count of a verse is the number of      *)
(* tokens of the normalised verse equal to the normalised term, for every  *)
(* term, also one holding spaces or other non-word characters.             *)
C3_TokensQualquerTermo ==
    (pc = "retorno" /\ args.modo = "exato")
    => ret = TokensEqual(NormVerso, NormTermo)

(* C3, amended: in exact mode, for every term whose normalised form holds  *)
(* only word characters, the count of a verse is the number of tokens of   *)
(* the normalised verse equal to the normalised term.                      *)
C3_TokensTermoPalavra ==
    (pc = "retorno" /\ args.modo = "exato" /\ OnlyWordChars(NormTermo))
    => ret = TokensEqual(NormVerso, NormTermo)

(* A verse with two tokens, one equal to the term and a longer one that    *)
(* contains it, has been counted in exact mode after normalisation.        *)
C3_Witness ==
    /\ pc = "retorno" /\ args.modo = "exato"
    /\ args.vers = <<"A", "m", " ", "a">>
    /\ args.termo = <<"A">>
    /\ ret = 1

(* C8, as stated: for the verse "o amor ama" and the term "ama", substring *)
(* mode counts 2 and exact mode counts 1.                                  *)
C8_AmostraDoisEUm ==
    (pc = "retorno" /\ args.vers = AmostraVerso /\ args.termo = AmostraTermo)
    => /\ args.modo = "substring" => ret = 2
       /\ args.modo = "exato" => ret = 1

(* C8, amended: for the verse "o amor ama" and the term "ama", substring   *)
(* mode counts 1 and exact mode counts 1.                                  *)
C8_AmostraUmEUm ==
    (pc = "retorno" /\ args.vers = AmostraVerso /\ args.termo = AmostraTermo)
    => /\ args.modo = "substring" => ret = 1
       /\ args.modo = "exato" => ret = 1

(* The sample verse has been counted in substring mode. *)
C8_Witness ==
    /\ pc = "retorno"
    /\ args.vers = AmostraVerso /\ args.termo = AmostraTermo
    /\ args.modo = "substring"
    /\ ret = 1

-----------------------------------------------------------------------------
(* The two search entry points.  A corpus (biblia) is a sequence of book   *)
(* entries [abbrev, chapters]; chapters is a sequence of chapters, each a  *)
(* sequence of verse texts.  A dict is a function on its keys.             *)

DictSet(d, k, v) == [x \in (DOMAIN d) \cup {k} |-> IF x = k THEN v ELSE d[x]]

RECURSIVE SumSeq(_)
SumSeq(s) == IF s = <<>> THEN 0 ELSE Head(s) + SumSeq(Tail(s))

(* total of one book: the two inner loops of contar_por_livro *)
BookTotal(livro, term_norm, modo) ==
    SumSeq([c \in 1..Len(livro.chapters) |->
        SumSeq([v \in 1..Len(livro.chapters[c]) |->
            CountVerse(livro.chapters[c][v], term_norm, modo)])])

RECURSIVE ContarLoop(_, _, _, _, _)
ContarLoop(biblia, i, term_norm, modo, contagem) ==
    IF i > Len(biblia) THEN contagem
    ELSE ContarLoop(biblia, i + 1, term_norm, modo,
             DictSet(contagem, biblia[i].abbrev,
                     BookTotal(biblia[i], term_norm, modo)))

contar_por_livro(biblia, termo, modo) ==
    ContarLoop(biblia, 1, normalizar(Str(termo)), modo, <<>>)

listar_ocorrencias(biblia, termo, modo) ==
    LET term_norm == normalizar(Str(termo))
    IN  Concat([b \in 1..Len(biblia) |->
          Concat([c \in 1..Len(biblia[b].chapters) |->
            Concat([v \in 1..Len(biblia[b].chapters[c]) |->
              IF CountVerse(biblia[b].chapters[c][v], term_norm, modo) > 0
              THEN << <<biblia[b].abbrev, c, v, biblia[b].chapters[c][v]>> >>
              ELSE <<>>])])])

-----------------------------------------------------------------------------
(* Specification of a search: the panel counts, then lists, with the same  *)
(* corpus, term and mode.                                                  *)

MaxLivros == 2     \* book entries of a corpus
MaxCaps == 2       \* chapters of a book entry
MaxVers == 1       \* verses of a chapter

VersosBusca == {<<"a">>, <<"m", " ", "A">>, <<" ">>, <<"m">>}
TermosBusca == {<<>>, <<" ">>, <<" ", " ">>, <<"a">>, <<"A">>}
AbrevsBusca == {"gn", "ex"}

Capitulos == SeqsUpTo(SeqsUpTo(VersosBusca, MaxVers), MaxCaps)

Corpora == SeqsUpTo([abbrev : AbrevsBusca, chapters : Capitulos], MaxLivros)

InitBusca ==
    /\ pc = "chamada"
    /\ args \in [biblia : Corpora, termo : TermosBusca, modo : Modos]
    /\ ret = [contagem |-> <<>>, ocorrencias |-> <<>>]
    /\ SemCarga

ContarPorLivro ==
    /\ pc = "chamada"
    /\ ret' = [ret EXCEPT
                 !.contagem = contar_por_livro(args.biblia, args.termo, args.modo)]
    /\ pc' = "contado"
    /\ UNCHANGED <<args, arquivos, result, biblias>>

ListarOcorrencias ==
    /\ pc = "contado"
    /\ ret' = [ret EXCEPT
                 !.ocorrencias = listar_ocorrencias(args.biblia, args.termo, args.modo)]
    /\ pc' = "listado"
    /\ UNCHANGED <<args, arquivos, result, biblias>>

NextBusca == ContarPorLivro \/ ListarOcorrencias

SpecBusca == InitBusca /\ [][NextBusca]_vars

IsSpace(ch) == ch = " "

(* C1: for a term that is empty or only whitespace, in both modes,         *)
(* contar_por_livro returns 0 for every book of the corpus and             *)
(* listar_ocorrencias returns no match.                                    *)
C1_TermoVazioOuBranco ==
    (/\ pc = "listado"
     /\ args.modo \in {"substring", "exato"}
     /\ \A i \in 1..Len(args.termo) : IsSpace(args.termo[i]))
    => /\ \A a \in DOMAIN ret.contagem : ret.contagem[a] = 0
       /\ \A i \in 1..Len(args.biblia) : args.biblia[i].abbrev \in DOMAIN ret.contagem
       /\ ret.ocorrencias = <<>>

(* C2: every match returned by listar_ocorrencias belongs to a book whose  *)
(* count in contar_por_livro, for the same term and mode, is at least 1,   *)
(* also when an abbreviation appears in more than one entry of the corpus. *)
C2_OcorrenciaContada ==
    pc = "listado" =>
        \A i \in 1..Len(ret.ocorrencias) :
            /\ ret.ocorrencias[i][1] \in DOMAIN ret.contagem
            /\ ret.contagem[ret.ocorrencias[i][1]] >= 1

-----------------------------------------------------------------------------
(* The book catalogue.  ORDEM is the key order of MAPA_LIVROS ("jo_acute"  *)
(* is the abbreviation of Job, written with U+00F3 in the source).         *)

ORDEM ==
    <<"gn", "ex", "lv", "nm", "dt", "js", "jz", "rt", "1sm", "2sm",
      "1rs", "2rs", "1cr", "2cr", "ed", "ne", "et", "jo_acute", "sl", "pv",
      "ec", "ct", "is", "jr", "lm", "ez", "dn", "os", "jl", "am",
      "ob", "jn", "mq", "na", "hc", "sf", "ag", "zc", "ml",
      "mt", "mc", "lc", "jo", "at", "rm", "1co", "2co", "gl", "ef",
      "fp", "cl", "1ts", "2ts", "1tm", "2tm", "tt", "fm", "hb",
      "tg", "1pe", "2pe", "1jo", "2jo", "3jo", "jd", "ap">>

(* Hebrew book name -> abbreviation; the names are transliterated. *)
MAPA_HEB_ABREV ==
    ("Bereshit" :> "gn") @@ ("Shemot" :> "ex") @@ ("Vayikra" :> "lv") @@
    ("Bamidbar" :> "nm") @@ ("Devarim" :> "dt") @@ ("Yehoshua" :> "js") @@
    ("Shoftim" :> "jz") @@ ("Rut" :> "rt") @@ ("Shmuel A" :> "1sm") @@
    ("Shmuel B" :> "2sm") @@ ("Melakhim A" :> "1rs") @@
    ("Melakhim B" :> "2rs") @@ ("Divrei HaYamim A" :> "1cr") @@
    ("Divrei HaYamim B" :> "2cr") @@ ("Ezra" :> "ed") @@
    ("Nehemya" :> "ne") @@ ("Ester" :> "et") @@ ("Iyov" :> "jo_acute") @@
    ("Tehilim" :> "sl") @@ ("Mishlei" :> "pv") @@ ("Kohelet" :> "ec") @@
    ("Shir HaShirim" :> "ct") @@ ("Yeshayahu" :> "is") @@
    ("Yirmeyahu" :> "jr") @@ ("Eikha" :> "lm") @@ ("Yehezkel" :> "ez") @@
    ("Daniel" :> "dn") @@ ("Hoshea" :> "os") @@ ("Yoel" :> "jl") @@
    ("Amos" :> "am") @@ ("Ovadya" :> "ob") @@ ("Yona" :> "jn") @@
    ("Mikha" :> "mq") @@ ("Nahum" :> "na") @@ ("Havakuk" :> "hc") @@
    ("Tsefanya" :> "sf") @@ ("Hagai" :> "ag") @@ ("Zekharya" :> "zc") @@
    ("Malakhi" :> "ml")

(* MAPA_HEB_ABREV.get(book, None) *)
HebAbrevGet(book) ==
    IF book \in DOMAIN MAPA_HEB_ABREV THEN MAPA_HEB_ABREV[book] ELSE "None"

-----------------------------------------------------------------------------
(* converter_hebraico.  A dict that is iterated is a record [keys, val]:   *)
(* its keys in insertion order and the function from key to value.         *)

EmptyDict == [keys |-> <<>>, val |-> <<>>]

HasKey(d, k) == k \in DOMAIN d.val

(* d[k] = v *)
OrdSet(d, k, v) ==
    [keys |-> IF HasKey(d, k) THEN d.keys ELSE Append(d.keys, k),
     val  |-> DictSet(d.val, k, v)]

(* d[k] of a defaultdict: the default when k is missing *)
OrdGet(d, k, default) == IF HasKey(d, k) THEN d.val[k] ELSE default

(* list(caps): the keys as they were inserted *)
InsertionOrder(keys) == keys

(* sorted(caps): the keys in ascending order *)
RECURSIVE SortedSet(_)
SortedSet(S) ==
    IF S = {} THEN <<>>
    ELSE LET m == CHOOSE x \in S : \A y \in S : x <= y
         IN  <<m>> \o SortedSet(S \ {m})

sorted(keys) == SortedSet({keys[i] : i \in 1..Len(keys)})

(* the first loop: group the retained verses by book and chapter *)
RECURSIVE AgruparLoop(_, _, _)
AgruparLoop(versos, i, livros) ==
    IF i > Len(versos) THEN livros
    ELSE LET v     == versos[i]
             abrev == HebAbrevGet(v.book)
             cap   == hebraico_para_num(Str(v.chapter))
         IN  IF abrev = "None" THEN AgruparLoop(versos, i + 1, livros)
             ELSE IF cap <= 0 THEN AgruparLoop(versos, i + 1, livros)
             ELSE LET caps  == OrdGet(livros, abrev, EmptyDict)
                      lista == OrdGet(caps, cap, <<>>)
                  IN  AgruparLoop(versos, i + 1,
                          OrdSet(livros, abrev,
                                 OrdSet(caps, cap, Append(lista, v.content))))

(* The adapter emitting the chapters in the order they first arrived. *)
converter_hebraico_sem_ordem(versos) ==
    LET livros == AgruparLoop(versos, 1, EmptyDict)
    IN  [k \in 1..Len(livros.keys) |->
            LET abrev   == livros.keys[k]
                caps    == livros.val[abrev]
                ordered == InsertionOrder(caps.keys)
            IN  [abbrev   |-> abrev,
                 chapters |-> [j \in 1..Len(ordered) |-> caps.val[ordered[j]]]]]

converter_hebraico(versos) ==
    LET livros == AgruparLoop(versos, 1, EmptyDict)
    IN  [k \in 1..Len(livros.keys) |->
            LET abrev   == livros.keys[k]
                caps    == livros.val[abrev]
                ordered == sorted(caps.keys)
            IN  [abbrev   |-> abrev,
                 chapters |-> [j \in 1..Len(ordered) |-> caps.val[ordered[j]]]]]

-----------------------------------------------------------------------------
(* Specification of the Hebrew adapter followed by a listing *)

MaxRegistros == 3  \* flat verse records of the Hebrew source

LivrosHeb == {"Bereshit", "Shemot"}
RotulosHeb == {<<"alef">>, <<"alef", "geresh">>, <<"gimel">>, <<"geresh">>}
ConteudosHeb == {<<"a">>, <<"m">>}
TermoHeb == <<"a">>

(* the records of two books of the table, and one of a book outside it *)
RegistrosHeb ==
    [book : LivrosHeb, chapter : RotulosHeb, content : ConteudosHeb]
    \cup {[book |-> "Sefer", chapter |-> <<"alef">>, content |-> <<"a">>]}

InitHebraico ==
    /\ pc = "chamada"
    /\ args \in [versos : SeqsUpTo(RegistrosHeb, MaxRegistros)]
    /\ ret = [biblia |-> <<>>, ocorrencias |-> <<>>]
    /\ SemCarga

ConverterHebraico ==
    /\ pc = "chamada"
    /\ ret' = [ret EXCEPT !.biblia = converter_hebraico(args.versos)]
    /\ pc' = "convertido"
    /\ UNCHANGED <<args, arquivos, result, biblias>>

ListarHebraico ==
    /\ pc = "convertido"
    /\ \E modo \in Modos :
         ret' = [ret EXCEPT
                   !.ocorrencias = listar_ocorrencias(ret.biblia, TermoHeb, modo)]
    /\ pc' = "listado"
    /\ UNCHANGED <<args, arquivos, result, biblias>>

NextHebraico == ConverterHebraico \/ ListarHebraico

SpecHebraico == InitHebraico /\ [][NextHebraico]_vars

(* What the source records say, read without the adapter *)
Decoded(v) == hebraico_para_num(Str(v.chapter))
Retained(v) == v.book \in DOMAIN MAPA_HEB_ABREV /\ Decoded(v) # 0
AbrevOf(v) == MAPA_HEB_ABREV[v.book]

RetainedOf(versos, ab) ==
    {i \in 1..Len(versos) : Retained(versos[i]) /\ AbrevOf(versos[i]) = ab}

ChapterNumbers(versos, ab) == {Decoded(versos[i]) : i \in RetainedOf(versos, ab)}

(* the n-th smallest member of a set of numbers *)
NthSmallest(S, n) == CHOOSE x \in S : Cardinality({y \in S : y < x}) = n - 1

(* the contents of the retained records of book ab and chapter number c,   *)
(* in arrival order                                                        *)
ArrivedVerses(versos, ab, c) ==
    LET Mine(v) == Retained(v) /\ AbrevOf(v) = ab /\ Decoded(v) = c
        mine    == SelectSeq(versos, Mine)
    IN  [i \in 1..Len(mine) |-> mine[i].content]

EntriesOf(biblia, ab) == {k \in 1..Len(biblia) : biblia[k].abbrev = ab}

(* C5: converter_hebraico emits, for each recognised book with a retained  *)
(* verse, exactly one entry; its chapters are the chapters that received a *)
(* retained verse, in ascending decoded chapter number, each with its      *)
(* verses in arrival order; records of an unrecognised book or with a      *)
(* chapter label decoding to 0 contribute no verse and no chapter.         *)
C5_CapitulosOrdenados ==
    pc \in {"convertido", "listado"} =>
        /\ \A k \in 1..Len(ret.biblia) :
             RetainedOf(args.versos, ret.biblia[k].abbrev) # {}
        /\ \A i \in 1..Len(args.versos) :
             Retained(args.versos[i]) =>
               LET ab   == AbrevOf(args.versos[i])
                   nums == ChapterNumbers(args.versos, ab)
               IN  /\ Cardinality(EntriesOf(ret.biblia, ab)) = 1
                   /\ \A k \in EntriesOf(ret.biblia, ab) :
                        /\ Len(ret.biblia[k].chapters) = Cardinality(nums)
                        /\ \A j \in 1..Cardinality(nums) :
                             ret.biblia[k].chapters[j] =
                               ArrivedVerses(args.versos, ab, NthSmallest(nums, j))

(* Chapter 3 of a book arrived before its chapter 1, between them a record *)
(* of an unrecognised book, and the adapter has run.                       *)
C5_Witness ==
    /\ pc = "convertido"
    /\ Len(args.versos) = 3
    /\ args.versos[1] = [book |-> "Bereshit", chapter |-> <<"gimel">>, content |-> <<"a">>]
    /\ args.versos[2].book = "Sefer"
    /\ args.versos[3] = [book |-> "Bereshit", chapter |-> <<"alef", "geresh">>, content |-> <<"m">>]
    /\ ret.biblia = <<[abbrev |-> "gn", chapters |-> << << <<"m">> >>, << <<"a">> >> >>]>>

(* C10: every match listed from a corpus built by converter_hebraico       *)
(* reports as its chapter number the decoded numeral of the chapter label  *)
(* of the source record that supplied the verse, also when the source      *)
(* skips chapter numbers of the book.                                      *)
C10_CapituloDoRegistro ==
    pc = "listado" =>
        \A m \in 1..Len(ret.ocorrencias) :
            \E i \in RetainedOf(args.versos, ret.ocorrencias[m][1]) :
                /\ args.versos[i].content = ret.ocorrencias[m][4]
                /\ Decoded(args.versos[i]) = ret.ocorrencias[m][2]

-----------------------------------------------------------------------------
(* The loader.  VERSOES in its insertion order; the file of a version is   *)
(* readable ("ok"), missing ("ausente") or not valid JSON ("malformado").  *)

VERSOES ==
    << [nome |-> "ACF",      path |-> "acf.json"],
       [nome |-> "AA",       path |-> "aa.json"],
       [nome |-> "NVI",      path |-> "nvi.json"],
       [nome |-> "Grego",    path |-> "el_greek.json"],
       [nome |-> "Hebraico", path |-> "hebrew.json"] >>

Nomes == {VERSOES[k].nome : k \in 1..Len(VERSOES)}

(* the exception open() or json.load() raises in carregar_versao *)
carregar_versao_erro(estado) ==
    IF estado = "ausente" THEN "FileNotFoundError" ELSE "JSONDecodeError"

MaxLivrosArquivo == 1     \* book entries of a structured source file
MaxRegistrosArquivo == 1  \* verse records of the Hebrew source file

(* what the files may hold: the abbreviation spellings of raw records *)
AbrevsBrutas == {"gn", "Gn", "mk"}

DadosEstruturados ==
    SeqsUpTo([abbrev : AbrevsBrutas, chapters : {<< <<<<"a">>>> >>}],
             MaxLivrosArquivo)

DadosHebraicos ==
    SeqsUpTo([book : {"Bereshit", "Sefer"},
              chapter : {<<"alef">>, <<"geresh">>},
              content : {<<"a">>}],
             MaxRegistrosArquivo)

DadosDe(nome) == IF nome = "Hebraico" THEN DadosHebraicos ELSE DadosEstruturados

(* the version the loop of build_biblias is at: result holds one entry for *)
(* each version before it                                                  *)
Posicao == Cardinality(DOMAIN result) + 1

InitCarga ==
    /\ pc = "build_biblias"
    /\ args = <<>>
    /\ ret = "pendente"
    /\ arquivos \in [Nomes -> {"ok", "ausente", "malformado"}]
    /\ result = <<>>
    /\ biblias = Indefinido

(* one iteration of the loop whose file loads *)
CarregarVersao ==
    /\ pc = "build_biblias"
    /\ Posicao <= Len(VERSOES)
    /\ LET nome == VERSOES[Posicao].nome
       IN  /\ arquivos[nome] = "ok"
           /\ \E data \in DadosDe(nome) :
                result' = DictSet(result, nome,
                              IF nome = "Hebraico" THEN converter_hebraico(data)
                              ELSE data)
    /\ UNCHANGED <<pc, args, ret, arquivos, biblias>>

(* A loader that, on a load error, hands out what it has loaded so far. *)
CarregarFalhaParcial ==
    /\ pc = "build_biblias"
    /\ Posicao <= Len(VERSOES)
    /\ arquivos[VERSOES[Posicao].nome] # "ok"
    /\ ret' = carregar_versao_erro(arquivos[VERSOES[Posicao].nome])
    /\ biblias' = [definido |-> TRUE, val |-> result]
    /\ pc' = "erro"
    /\ UNCHANGED <<args, arquivos, result>>

(* one iteration whose file does not load: the exception leaves            *)
(* build_biblias, and the assignment to biblias never runs                 *)
CarregarFalha ==
    /\ pc = "build_biblias"
    /\ Posicao <= Len(VERSOES)
    /\ arquivos[VERSOES[Posicao].nome] # "ok"
    /\ ret' = carregar_versao_erro(arquivos[VERSOES[Posicao].nome])
    /\ pc' = "erro"
    /\ UNCHANGED <<args, arquivos, result, biblias>>

(* return result; biblias = build_biblias() *)
Publicar ==
    /\ pc = "build_biblias"
    /\ Posicao > Len(VERSOES)
    /\ biblias' = [definido |-> TRUE, val |-> result]
    /\ ret' = "ok"
    /\ pc' = "pronto"
    /\ UNCHANGED <<args, arquivos, result>>

NextCarga == CarregarVersao \/ CarregarFalha \/ Publicar

SpecCarga == InitCarga /\ [][NextCarga]_vars

Publicadas == IF biblias.definido THEN DOMAIN biblias.val ELSE {}

Canonicas == {ORDEM[k] : k \in 1..Len(ORDEM)}

(* C6: every book entry of every corpus the loader publishes, structured   *)
(* or flat Hebrew, carries an abbreviation of ORDEM, whatever spelling the *)
(* raw record used.                                                        *)
C6_AbreviacaoCanonica ==
    \A nome \in Publicadas :
        \A k \in 1..Len(biblias.val[nome]) :
            biblias.val[nome][k].abbrev \in Canonicas

Ilegiveis == {nome \in Nomes : arquivos[nome] # "ok"}

(* C7, as stated: a version whose file is missing or malformed publishes   *)
(* no corpus and the error is that version's alone: every other version is *)
(* still loaded and its corpus published.                                  *)
C7_FalhaPorVersao ==
    pc \in {"pronto", "erro"} => Publicadas = Nomes \ Ilegiveis

(* C7, amended: when the file of any version is missing or malformed, the  *)
(* error of the first such version in the order of VERSOES leaves          *)
(* build_biblias and no corpus is published, of that version or of any     *)
(* other; when every file loads, the corpus of every version is published. *)
C7_FalhaGlobal ==
    pc \in {"pronto", "erro"} =>
        IF Ilegiveis = {}
        THEN pc = "pronto" /\ Publicadas = Nomes
        ELSE LET k == CHOOSE j \in 1..Len(VERSOES) :
                        /\ VERSOES[j].nome \in Ilegiveis
                        /\ \A h \in 1..(j - 1) : VERSOES[h].nome \notin Ilegiveis
             IN  /\ pc = "erro"
                 /\ ret = carregar_versao_erro(arquivos[VERSOES[k].nome])
                 /\ Publicadas = {}

(* The first two versions were loaded, the file of the third is missing    *)
(* and the last two are readable: the build has ended with the error.      *)
C7_Witness ==
    /\ pc = "erro"
    /\ arquivos = [n \in Nomes |-> IF n = "NVI" THEN "ausente" ELSE "ok"]
    /\ DOMAIN result = {"ACF", "AA"}
    /\ ret = "FileNotFoundError"

=============================================================================
